---- MODULE Spec2Model ----
(***************************************************************************)
(* One run of the httpie command-line client (src/httpie/src/main.rs):     *)
(* argument parsing (parse_url, parse_kv_pair / KvPair::from_str), the     *)
(* single request of get / post, and the rendering of the response         *)
(* (print_status, print_headers, get_content_type, text, print_body).      *)
(* Strings that the program parses character by character (the key=value   *)
(* arguments) are sequences of one-character strings; Option<T> is a       *)
(* sequence of length 0 (None) or 1 (Some).                                *)
(***************************************************************************)
EXTENDS Integers, Sequences, FiniteSets, TLC

VARIABLES argv, pc, url, body, requests, net, resp, mime, text, stdout, err, panic, exit

vars == <<argv, pc, url, body, requests, net, resp, mime, text, stdout, err, panic, exit>>

(* ------------------------------ bounds --------------------------------- *)

\* longest key=value argument of a command line with one argument
MaxLen == 5
\* longest key=value argument of a command line with several arguments
MaxShort == 2
\* most key=value arguments on one command line
MaxPairs == 2

(* ------------------------------ inputs --------------------------------- *)

Alphabet == {"a", "="}

Strs(n) == UNION {[1..l -> Alphabet] : l \in 0..n}

\* the key=value arguments of a command line: one argument of up to MaxLen
\* characters, or up to MaxPairs arguments of up to MaxShort characters
KvLists ==
    {<<s>> : s \in Strs(MaxLen)}
    \cup UNION {[1..n -> Strs(MaxShort)] : n \in 0..MaxPairs}

Urls == {"http://example.com", "not-a-url", ""}

Argvs ==
    {[cmd |-> "get", url |-> u, kvs |-> <<>>] : u \in Urls}
    \cup {[cmd |-> "post", url |-> u, kvs |-> l] : u \in Urls, l \in KvLists}

None == <<>>

Some(x) == <<x>>

(* --------------------------- argument parsing -------------------------- *)

\* reqwest::Url::parse on the URLs of the model: an absolute URL is accepted
UrlParses(s) == s \in {"http://example.com"}

ParseUrlResult(s) ==
    IF UrlParses(s) THEN [ok |-> TRUE, val |-> s]
    ELSE [ok |-> FALSE, val |-> s]

parse_url(s) == ParseUrlResult(s)

\* the index of the first "=" of s, 0 when s has none
Find(s) ==
    IF \E i \in 1..Len(s) : s[i] = "="
    THEN CHOOSE i \in 1..Len(s) : s[i] = "=" /\ \A j \in 1..(i - 1) : s[j] # "="
    ELSE 0

\* str::split("="): the pieces of s between the "=" characters, all of them
RECURSIVE Split(_)
Split(s) ==
    IF Find(s) = 0 THEN <<s>>
    ELSE <<SubSeq(s, 1, Find(s) - 1)>> \o Split(SubSeq(s, Find(s) + 1, Len(s)))

\* KvPair::from_str with a trailing-"=" check added: a plausible variant that
\* rejects an empty key or an empty value
from_str_nonempty(s) ==
    LET split == Split(s) IN
    IF Len(split) < 2 \/ split[1] = <<>> \/ split[2] = <<>>
    THEN [ok |-> FALSE, k |-> <<>>, v |-> <<>>, msg |-> s]
    ELSE [ok |-> TRUE, k |-> split[1], v |-> split[2], msg |-> <<>>]

\* KvPair::from_str: the first piece is the key, the second the value
from_str(s) ==
    LET split == Split(s) IN
    IF Len(split) < 1 THEN [ok |-> FALSE, k |-> <<>>, v |-> <<>>, msg |-> s]
    ELSE IF Len(split) < 2 THEN [ok |-> FALSE, k |-> <<>>, v |-> <<>>, msg |-> s]
    ELSE [ok |-> TRUE, k |-> split[1], v |-> split[2], msg |-> <<>>]

parse_kv_pair(s) == from_str(s)

(* ------------------------------ the run -------------------------------- *)

Init ==
    /\ argv \in Argvs
    /\ pc = "from_args"
    /\ url = None
    /\ body = <<>>
    /\ requests = <<>>
    /\ net = <<>>
    /\ resp = None
    /\ mime = None
    /\ text = None
    /\ stdout = <<>>
    /\ err = None
    /\ panic = None
    /\ exit = None

\* one line of standard output
Line(kind, a, b) == [kind |-> kind, a |-> a, b |-> b]

\* structopt/clap reports a failed argument and exits with code 1
ClapExit(what, arg) ==
    /\ err' = Some([kind |-> "clap", what |-> what, arg |-> arg])
    /\ exit' = Some(1)
    /\ pc' = "exit"

\* main returns Err(e): the runtime reports it and the process exits with code 1
ReturnErr(e) ==
    /\ err' = Some(e)
    /\ exit' = Some(1)
    /\ pc' = "exit"

\* main returns Ok(()): exit code 0
ReturnOk ==
    /\ exit' = Some(0)
    /\ pc' = "exit"
    /\ UNCHANGED err

\* an unwrap on Err panics: the process aborts with code 101
Panic(where) ==
    /\ panic' = Some(where)
    /\ exit' = Some(101)
    /\ pc' = "exit"
    /\ UNCHANGED err

\* App::from_args, the url field (parse(try_from_str = parse_url))
from_args_url ==
    /\ pc = "from_args"
    /\ url = None
    /\ LET r == parse_url(argv.url) IN
       IF r.ok
       THEN /\ url' = Some(r.val)
            /\ UNCHANGED <<pc, err, exit>>
       ELSE /\ ClapExit("url", <<argv.url>>)
            /\ UNCHANGED url
    /\ UNCHANGED <<argv, body, requests, net, resp, mime, text, stdout, panic>>

\* a variant of from_args_body that takes an argument it cannot parse as an
\* empty pair and goes on
from_args_body_skip ==
    /\ pc = "from_args"
    /\ url # None
    /\ argv.cmd = "post"
    /\ Len(body) < Len(argv.kvs)
    /\ LET r == parse_kv_pair(argv.kvs[Len(body) + 1]) IN
       body' = Append(body, [k |-> r.k, v |-> r.v])
    /\ UNCHANGED <<argv, pc, url, requests, net, resp, mime, text, stdout, err, panic, exit>>

\* App::from_args, the next element of the body field
\* (parse(try_from_str = parse_kv_pair)), in command-line order
from_args_body ==
    /\ pc = "from_args"
    /\ url # None
    /\ argv.cmd = "post"
    /\ Len(body) < Len(argv.kvs)
    /\ LET s == argv.kvs[Len(body) + 1]
           r == parse_kv_pair(s)
       IN  IF r.ok
           THEN /\ body' = Append(body, [k |-> r.k, v |-> r.v])
                /\ UNCHANGED <<pc, err, exit>>
           ELSE /\ ClapExit("body", r.msg)
                /\ UNCHANGED body
    /\ UNCHANGED <<argv, url, requests, net, resp, mime, text, stdout, panic>>

\* the headers of the client built in main
DefaultHeaders == {<<"x-powerd-by", "Rust">>, <<"user-agent", "Rust Httpie">>}

\* main, from the return of from_args to the dispatch on the subcommand:
\* the parsed options are printed and the client is built
main ==
    /\ pc = "from_args"
    /\ url # None
    /\ argv.cmd = "post" => Len(body) = Len(argv.kvs)
    /\ stdout' = Append(stdout, Line("opt", argv.cmd, url[1]))
    /\ pc' = "dispatch"
    /\ UNCHANGED <<argv, url, body, requests, net, resp, mime, text, err, panic, exit>>

(* ------------------------ the HTTP collaborator ------------------------ *)

\* what the transport can answer to send() and to text(): a failure, or success
NetErrors == {"connect", "timeout"}

Statuses == {200, 404, 500}

\* StatusCode's Display: the code and its canonical reason
StatusText(s) ==
    CASE s = 200 -> "200 OK"
      [] s = 404 -> "404 Not Found"
      [] s = 500 -> "500 Internal Server Error"

\* Content-Type values a server may send; the last one holds bytes that are
\* not visible ASCII
ContentTypes ==
    {"application/json", "application/json; charset=utf-8", "text/plain",
     "not a mime", "<bytes ff fe>"}

ServerHeader == [name |-> "server", value |-> "nginx"]

HeaderLists ==
    {<<ServerHeader>>}
    \cup {<<ServerHeader, [name |-> "content-type", value |-> c]>> : c \in ContentTypes}

Responses == [version : {"HTTP/1.1"}, status : Statuses, headers : HeaderLists]

Bodies == {"{\"x\":1}", "hello"}

(* ------------------------------ dispatch ------------------------------- *)

\* the request of send() and its outcome: Err(e) is returned through get/post
\* and main by the ? operators, Ok(resp) goes on to print_resp
Send(req) ==
    /\ requests' = Append(requests, req)
    /\ \/ \E e \in NetErrors :
            /\ net' = Append(net, [op |-> "send", result |-> e])
            /\ ReturnErr([kind |-> "reqwest", what |-> "send", arg |-> <<e>>])
            /\ UNCHANGED resp
       \/ \E r \in Responses :
            /\ net' = Append(net, [op |-> "send", result |-> "ok"])
            /\ resp' = Some(r)
            /\ pc' = "print_status"
            /\ UNCHANGED <<err, exit>>

\* get, up to the return of send().await
get ==
    /\ pc = "dispatch"
    /\ argv.cmd = "get"
    /\ Send([method |-> "GET", url |-> url[1], headers |-> DefaultHeaders,
             json |-> None])
    /\ UNCHANGED <<argv, url, body, mime, text, stdout, panic>>

EmptyMap == [x \in {} |-> <<>>]

\* HashMap::insert with the entry kept when the key is already present
insert_keep(m, k, v) ==
    [x \in (DOMAIN m) \cup {k} |-> IF x \in DOMAIN m THEN m[x] ELSE v]

\* HashMap::insert: the value of k is replaced
insert(m, k, v) ==
    [x \in (DOMAIN m) \cup {k} |-> IF x = k THEN v ELSE m[x]]

\* the loop of post: the pairs are inserted in order
RECURSIVE BodyMap(_, _)
BodyMap(pairs, m) ==
    IF pairs = <<>> THEN m
    ELSE BodyMap(Tail(pairs), insert(m, Head(pairs).k, Head(pairs).v))

\* RequestBuilder::json: the map as a JSON object, a set of members
Json(m) == {<<k, m[k]>> : k \in DOMAIN m}

\* post, up to the return of send().await
post ==
    /\ pc = "dispatch"
    /\ argv.cmd = "post"
    /\ Send([method |-> "POST", url |-> url[1],
             headers |-> DefaultHeaders \cup {<<"content-type", "application/json">>},
             json |-> Some(Json(BodyMap(body, EmptyMap)))])
    /\ UNCHANGED <<argv, url, body, mime, text, stdout, panic>>

(* ------------------------------ rendering ------------------------------ *)

Blank == Line("blank", "", "")

\* print_status: version and status on one line, and the "\n" of the format
\* string gives an empty line after it
print_status ==
    /\ pc = "print_status"
    /\ stdout' = stdout \o <<Line("status", resp[1].version, StatusText(resp[1].status)),
                             Blank>>
    /\ pc' = "print_headers"
    /\ UNCHANGED <<argv, url, body, requests, net, resp, mime, text, err, panic, exit>>

HeaderLines(hs) == [i \in 1..Len(hs) |-> Line("header", hs[i].name, hs[i].value)]

\* a variant of print_headers without the closing println!("")
print_headers_noblank ==
    /\ pc = "print_headers"
    /\ stdout' = stdout \o HeaderLines(resp[1].headers)
    /\ pc' = "get_content_type"
    /\ UNCHANGED <<argv, url, body, requests, net, resp, mime, text, err, panic, exit>>

\* print_headers: one line per header, in the response's order, then an empty line
print_headers ==
    /\ pc = "print_headers"
    /\ stdout' = stdout \o HeaderLines(resp[1].headers) \o <<Blank>>
    /\ pc' = "get_content_type"
    /\ UNCHANGED <<argv, url, body, requests, net, resp, mime, text, err, panic, exit>>

\* HeaderMap::get(CONTENT_TYPE): the first header of that name
HeaderGet(hs, name) ==
    IF \E i \in 1..Len(hs) : hs[i].name = name
    THEN Some(hs[CHOOSE i \in 1..Len(hs) :
                    hs[i].name = name /\ \A j \in 1..(i - 1) : hs[j].name # name].value)
    ELSE None

\* HeaderValue::to_str: Err when a byte is not visible ASCII
to_str(v) == [ok |-> v # "<bytes ff fe>", val |-> v]

NoMime == [type |-> "", subtype |-> "", params |-> <<>>]

APPLICATION_JSON == [type |-> "application", subtype |-> "json", params |-> <<>>]

\* str::parse::<Mime> on the content types of the model
MimeFromStr(s) ==
    CASE s = "application/json" ->
            [ok |-> TRUE, val |-> APPLICATION_JSON]
      [] s = "application/json; charset=utf-8" ->
            [ok |-> TRUE, val |-> [type |-> "application", subtype |-> "json",
                                   params |-> <<<<"charset", "utf-8">>>>]]
      [] s = "text/plain" ->
            [ok |-> TRUE, val |-> [type |-> "text", subtype |-> "plain", params |-> <<>>]]
      [] OTHER -> [ok |-> FALSE, val |-> NoMime]

\* Mime's ==: type, subtype and parameters
MimeEq(a, b) == a.type = b.type /\ a.subtype = b.subtype /\ a.params = b.params

\* get_content_type, called in print_resp after print_headers: None without
\* the header; each unwrap panics on Err
get_content_type ==
    /\ pc = "get_content_type"
    /\ LET h == HeaderGet(resp[1].headers, "content-type") IN
       IF h = None
       THEN /\ mime' = None
            /\ pc' = "text"
            /\ UNCHANGED <<err, panic, exit>>
       ELSE IF ~to_str(h[1]).ok
       THEN /\ Panic("get_content_type: to_str().unwrap()")
            /\ UNCHANGED mime
       ELSE IF ~MimeFromStr(to_str(h[1]).val).ok
       THEN /\ Panic("get_content_type: parse().unwrap()")
            /\ UNCHANGED mime
       ELSE /\ mime' = Some(MimeFromStr(to_str(h[1]).val).val)
            /\ pc' = "text"
            /\ UNCHANGED <<err, panic, exit>>
    /\ UNCHANGED <<argv, url, body, requests, net, resp, text, stdout>>

\* resp.text().await?: the whole body as text, or the transport's error,
\* returned through print_resp, get/post and main
resp_text ==
    /\ pc = "text"
    /\ \/ \E e \in NetErrors :
            /\ net' = Append(net, [op |-> "text", result |-> e])
            /\ ReturnErr([kind |-> "reqwest", what |-> "text", arg |-> <<e>>])
            /\ UNCHANGED text
       \/ \E b \in Bodies :
            /\ net' = Append(net, [op |-> "text", result |-> "ok"])
            /\ text' = Some(b)
            /\ pc' = "print_body"
            /\ UNCHANGED <<err, exit>>
    /\ UNCHANGED <<argv, url, body, requests, resp, mime, stdout, panic>>

ValidJson(b) == b = "{\"x\":1}"

\* jsonxf::pretty_print: the re-indented text of a JSON document; for a text
\* that is no JSON document the library's result is not fixed by the
\* program, Ok(some text) or Err are both possible
pretty_print(b) ==
    IF ValidJson(b) THEN {[ok |-> TRUE, val |-> "{\n  \"x\": 1\n}"]}
    ELSE {[ok |-> TRUE, val |-> b], [ok |-> FALSE, val |-> b]}

\* a variant of print_body that compares type and subtype only
print_body_essence ==
    /\ pc = "print_body"
    /\ IF mime # None /\ mime[1].type = APPLICATION_JSON.type
                      /\ mime[1].subtype = APPLICATION_JSON.subtype
       THEN \/ \E r \in pretty_print(text[1]) :
                 /\ r.ok
                 /\ stdout' = Append(stdout, Line("body", r.val, "cyan"))
                 /\ ReturnOk
                 /\ UNCHANGED panic
            \/ \E r \in pretty_print(text[1]) :
                 /\ ~r.ok
                 /\ Panic("print_body: pretty_print().unwrap()")
                 /\ UNCHANGED stdout
       ELSE /\ stdout' = Append(stdout, Line("body", text[1], "plain"))
            /\ ReturnOk
            /\ UNCHANGED panic
    /\ UNCHANGED <<argv, url, body, requests, net, resp, mime, text>>

\* print_body, and the return of Ok(()) from print_resp, get/post and main
print_body ==
    /\ pc = "print_body"
    /\ IF mime # None /\ MimeEq(mime[1], APPLICATION_JSON)
       THEN \/ \E r \in pretty_print(text[1]) :
                 /\ r.ok
                 /\ stdout' = Append(stdout, Line("body", r.val, "cyan"))
                 /\ ReturnOk
                 /\ UNCHANGED panic
            \/ \E r \in pretty_print(text[1]) :
                 /\ ~r.ok
                 /\ Panic("print_body: pretty_print().unwrap()")
                 /\ UNCHANGED stdout
       ELSE /\ stdout' = Append(stdout, Line("body", text[1], "plain"))
            /\ ReturnOk
            /\ UNCHANGED panic
    /\ UNCHANGED <<argv, url, body, requests, net, resp, mime, text>>

(* --------------------------- specification ----------------------------- *)

Next ==
    \/ from_args_url
    \/ from_args_body
    \/ main
    \/ get
    \/ post
    \/ print_status
    \/ print_headers
    \/ get_content_type
    \/ resp_text
    \/ print_body

Spec == Init /\ [][Next]_vars

(* ------------------------------ properties ----------------------------- *)

Last(s) == s[Len(s)]

IsPrefix(s, t) == Len(s) <= Len(t) /\ SubSeq(t, 1, Len(s)) = s

\* the Content-Type header of the response received, None without one
ContentType == IF resp = None THEN None ELSE HeaderGet(resp[1].headers, "content-type")

\* the argument the parser stopped at
Rejected == err # None /\ err[1].kind = "clap" /\ err[1].what = "body"

\* C1: every accepted argument k=v is split at its first "=" only: the key is
\* the text before it and the value all the text after it, further "="
\* included.
C1_SplitAtFirstEq ==
    \A j \in 1..Len(body) :
        LET s == argv.kvs[j]
            i == Find(s)
        IN  /\ body[j].k = SubSeq(s, 1, i - 1)
            /\ body[j].v = SubSeq(s, i + 1, Len(s))

\* C2: the parser rejects exactly the arguments without "=": an accepted
\* argument holds one, a rejected one holds none, and when parsing ends
\* without a rejection every argument was accepted; "=" alone is accepted
\* with an empty key and an empty value.
C2_FailsIffNoEq ==
    /\ \A j \in 1..Len(body) : Find(argv.kvs[j]) # 0
    /\ Rejected => /\ Len(body) < Len(argv.kvs)
                   /\ Find(argv.kvs[Len(body) + 1]) = 0
                   /\ err[1].arg = argv.kvs[Len(body) + 1]
    /\ (pc # "from_args" /\ url # None /\ ~Rejected) => Len(body) = Len(argv.kvs)
    /\ \A j \in 1..Len(body) :
         argv.kvs[j] = <<"=">> => body[j] = [k |-> <<>>, v |-> <<>>]

\* C2 witness: "=" was accepted with empty key and value, and the empty
\* string after it was rejected
C2_Witness ==
    /\ argv.kvs = << <<"=">>, <<>> >>
    /\ body = <<[k |-> <<>>, v |-> <<>>]>>
    /\ Rejected
    /\ pc = "exit"

\* the last pair of body with key k
LastWith(k) ==
    CHOOSE j \in 1..Len(body) :
        body[j].k = k /\ \A l \in (j + 1)..Len(body) : body[l].k # k

\* C3: the JSON body sent by post has exactly one member per distinct key of
\* the pairs, with the value of the last pair of that key.
C3_LastValueWins ==
    \A i \in 1..Len(requests) :
        requests[i].method = "POST" =>
            requests[i].json =
                Some({<<k, body[LastWith(k)].v>> : k \in {body[j].k : j \in 1..Len(body)}})

\* C3 witness: a request was sent for two pairs of the same key with
\* different values
C3_Witness ==
    /\ Len(requests) = 1
    /\ Len(body) = 2
    /\ body[1].k = body[2].k
    /\ body[1].v # body[2].v

\* C4: once print_body has run, the body was pretty-printed if and only if
\* the Content-Type is exactly application/json; with any other content type
\* that parses, or with none, the last line printed is the body text
\* verbatim.
C4_PrettyIffJson ==
    (pc = "exit" /\ text # None) =>
        IF ContentType = Some("application/json")
        THEN \/ panic # None
             \/ /\ Last(stdout).kind = "body"
                /\ Last(stdout).b = "cyan"
                /\ \E r \in pretty_print(text[1]) : r.ok /\ Last(stdout).a = r.val
        ELSE /\ Last(stdout) = Line("body", text[1], "plain")
             /\ panic = None

\* C4 witness: a JSON body under application/json with a charset parameter
\* was printed verbatim
C4_Witness ==
    /\ pc = "exit"
    /\ ContentType = Some("application/json; charset=utf-8")
    /\ text = Some("{\"x\":1}")
    /\ Last(stdout) = Line("body", "{\"x\":1}", "plain")

\* C5: a response without Content-Type, or with one that is no MIME type or
\* no text, is rendered like one without MIME information: no panic, the raw
\* body printed, exit code 0.
C5_UnparseableIsNoMime ==
    (pc = "exit" /\ resp # None
       /\ ContentType \in {None, Some("not a mime"), Some("<bytes ff fe>")}) =>
        /\ panic = None
        /\ text # None => /\ exit = Some(0)
                          /\ Last(stdout) = Line("body", text[1], "plain")

\* C6: a body that is no JSON under Content-Type application/json ends the
\* run with an error returned to main and a nonzero exit code, without a
\* panic and without the body printed.
C6_MalformedJsonIsError ==
    (pc = "exit" /\ ContentType = Some("application/json")
       /\ text # None /\ ~ValidJson(text[1])) =>
        /\ err # None
        /\ exit # Some(0)
        /\ panic = None
        /\ Last(stdout).kind # "body"

\* what ended the run with a nonzero exit code is one of: argument parsing,
\* transport, reading the body
ListedFailure ==
    /\ err # None
    /\ panic = None
    /\ \/ err[1].kind = "clap"
       \/ err[1].kind = "reqwest" /\ err[1].what \in {"send", "text"}

\* C7: a run whose response was rendered ends with exit code 0 whatever the
\* status code, and a run ends nonzero only on an argument-parse, transport
\* or body-decoding failure.
C7_ExitIndependentOfStatus ==
    pc = "exit" =>
        /\ (stdout # <<>> /\ Last(stdout).kind = "body") => exit = Some(0)
        /\ exit # Some(0) => ListedFailure

\* every argument of the command line passes its parser
AllArgsParse ==
    /\ parse_url(argv.url).ok
    /\ \A j \in 1..Len(argv.kvs) : parse_kv_pair(argv.kvs[j]).ok

\* C8: a request is sent only after the URL and every key=value argument
\* were parsed successfully; a run in which one of them fails sends nothing,
\* prints nothing and ends with a nonzero exit code.
C8_ValidationBeforeRequest ==
    /\ requests # <<>> =>
         /\ AllArgsParse
         /\ url = Some(argv.url)
         /\ Len(body) = Len(argv.kvs)
    /\ ~AllArgsParse =>
         /\ requests = <<>>
         /\ net = <<>>
         /\ stdout = <<>>
         /\ pc \in {"from_args", "exit"}
         /\ pc = "exit" => exit = Some(1) /\ err # None

\* C8 witness: the second key=value argument failed after the URL and the
\* first argument had passed; the run is over
C8_Witness ==
    /\ pc = "exit"
    /\ url # None
    /\ Len(body) = 1
    /\ Len(argv.kvs) = 2
    /\ Rejected
    /\ requests = <<>>

\* a transport failure of send() or text()
NetFailed == net # <<>> /\ Last(net).result # "ok"

\* a failure of the request or of anything after it: the run is over after a
\* request was sent, by a transport failure, a panic or a nonzero exit code
FailedAfterRequest ==
    /\ requests # <<>>
    /\ pc = "exit"
    /\ NetFailed \/ panic # None \/ exit # Some(0)

\* C9: at most one request is sent; after a transport failure of the
\* request, or a later failure while reading or rendering the response, the
\* error is forwarded unchanged to the top level as the error main returns
\* (no panic), no body line was written after it (after a failed send,
\* nothing of a response), and the run ends with a nonzero exit code.
C9_SingleAttempt ==
    /\ Len(requests) <= 1
    /\ Cardinality({i \in 1..Len(net) : net[i].op = "send"}) <= 1
    /\ NetFailed => pc = "exit"
    /\ FailedAfterRequest =>
         /\ err # None
         /\ panic = None
         /\ NetFailed => err = Some([kind |-> "reqwest", what |-> Last(net).op,
                                     arg |-> <<Last(net).result>>])
         /\ exit # None /\ exit # Some(0)
         /\ \A i \in 1..Len(stdout) : stdout[i].kind # "body"
         /\ (NetFailed /\ Last(net).op = "send") => resp = None /\ Len(stdout) = 1

\* what print_resp has written: standard output after the line of main
Rendered == IF stdout = <<>> THEN <<>> ELSE Tail(stdout)

\* the status line, its empty line, the headers in order, an empty line
HeadPart ==
    <<Line("status", resp[1].version, StatusText(resp[1].status)), Blank>>
    \o HeaderLines(resp[1].headers) \o <<Blank>>

\* C10: the response is written in the order status line, headers, empty
\* line, body; the body line is written only when the body was read, and
\* when reading the body fails the status line and all headers are on
\* standard output without a body.
C10_RenderOrder ==
    /\ resp = None => Rendered = <<>>
    /\ resp # None =>
         /\ \/ IsPrefix(Rendered, HeadPart)
            \/ /\ Len(Rendered) = Len(HeadPart) + 1
               /\ SubSeq(Rendered, 1, Len(HeadPart)) = HeadPart
               /\ Last(Rendered).kind = "body"
               /\ text # None
         /\ pc \in {"text", "print_body"} => Rendered = HeadPart
         /\ (NetFailed /\ Last(net).op = "text") =>
              /\ Rendered = HeadPart
              /\ text = None

\* C10 witness: reading the body failed after the status line and two
\* headers were written
C10_Witness ==
    /\ pc = "exit"
    /\ NetFailed
    /\ Last(net).op = "text"
    /\ Len(resp[1].headers) = 2
    /\ Len(Rendered) = 5

====
